---- MODULE Spec2Model ----
(***************************************************************************)
(* A model of aave_test1.py: main() connects to a node, reads the block    *)
(* height, loads the ABI, calls getReservesData once, and folds the        *)
(* reserves into a USD total in calculate_total_tvl().                     *)
(*                                                                         *)
(* Python values are modelled with their type: a field is either an int    *)
(* ([t |-> "int", v |-> n]) or a value of the wrong type, a non-numeric    *)
(* str ([t |-> "str", v |-> 0]).  A tuple is modelled by its length (len)  *)
(* and the positional fields the code reads; reading index k of a tuple    *)
(* raises IndexError exactly when k >= len.                                *)
(*                                                                         *)
(* Python floats are modelled by exact rationals <<n, d>> in lowest terms. *)
(* The inputs are chosen so that every quotient and product the code       *)
(* computes is a dyadic rational with a short mantissa (1/2, 3/2, 2, ...), *)
(* where IEEE binary64 arithmetic is exact and equals the rational.        *)
(***************************************************************************)
EXTENDS Integers, Sequences, FiniteSets, TLC

\* ------------------------------------------------------------------ bounds

\* The longest reserves list getReservesData returns in the model.
MaxReserves == 2

\* ------------------------------------------------------ Python values

IntV(n) == [t |-> "int", v |-> n]

\* A value of the wrong type: a non-numeric str such as "abc".
StrV == [t |-> "str", v |-> 0]

IsInt(x) == x.t = "int"

\* ------------------------------------------------- floats as rationals

Abs(n) == IF n < 0 THEN 0 - n ELSE n

RECURSIVE GCD(_, _)
GCD(a, b) == IF b = 0 THEN a ELSE GCD(b, a % b)

\* n/d in lowest terms with a positive denominator (d # 0).
Rat(n, d) ==
  LET g == GCD(Abs(n), Abs(d))
      s == IF d < 0 THEN 0 - 1 ELSE 1
  IN  <<(s * n) \div g, (s * d) \div g>>

Zero == Rat(0, 1)

RatAdd(a, b) == Rat(a[1] * b[2] + b[1] * a[2], a[2] * b[2])

\* Cross-reduced before multiplying, so that the products stay small.
RatMul(a, b) ==
  LET x == Rat(a[1], b[2])
      y == Rat(b[1], a[2])
  IN  Rat(x[1] * y[1], x[2] * y[2])

\* b # 0
RatDiv(a, b) == RatMul(a, Rat(b[2], b[1]))

RECURSIVE Pow10(_)
Pow10(k) == IF k = 0 THEN 1 ELSE 10 * Pow10(k - 1)

\* A denominator that is a power of two: the rational is a binary fraction.
RECURSIVE PowerOfTwo(_)
PowerOfTwo(d) == d = 1 \/ (d % 2 = 0 /\ PowerOfTwo(d \div 2))

\* ------------------------------------------------------------ tuples

\* The positional indices calculate_total_tvl reads from a reserve record.
SYMBOL == 2
ASSET_DECIMALS == 3
IS_ACTIVE == 10
IS_FROZEN == 11
AVAILABLE_LIQUIDITY == 20
TOTAL_SCALED_VARIABLE_DEBT == 21
PRICE_IN_MARKET_REF_CURRENCY == 22

\* The field count a record needs for every read of the loop to succeed:
\* the last index read is that of the price.
FullReserveLen == PRICE_IN_MARKET_REF_CURRENCY + 1

\* The indices read from base_currency_info: 0, 1 and 3.
BASE_UNIT == 0
BASE_PRICE == 1
BASE_DECIMALS == 3

\* The field count base_currency_info needs for its reads to succeed.
FullBaseLen == BASE_DECIMALS + 1

\* tuple[k] succeeds exactly when k < len(tuple); otherwise IndexError.
HasField(tuple, k) == k < tuple.len

\* A symbol that sys.stdout's encoding cannot encode (print raises
\* UnicodeEncodeError, an Exception) and one that it can.
Unencodable == "XI"

\* print(f"... {symbol} ...") returns normally.
Emits(symbol) == symbol # Unencodable

Reserve(n, sym, dec, act, fro, liq, debt, price) ==
  [len |-> n, symbol |-> sym, asset_decimals |-> dec, is_active |-> act,
   is_frozen |-> fro, available_liquidity |-> liq,
   total_scaled_variable_debt |-> debt, price |-> price]

\* The record cut to its first n positional fields; the fields that are gone
\* hold a placeholder that no read returns.
Truncate(r, n) ==
  Reserve(n,
          IF SYMBOL < n THEN r.symbol ELSE "",
          IF ASSET_DECIMALS < n THEN r.asset_decimals ELSE StrV,
          IF IS_ACTIVE < n THEN r.is_active ELSE FALSE,
          IF IS_FROZEN < n THEN r.is_frozen ELSE FALSE,
          IF AVAILABLE_LIQUIDITY < n THEN r.available_liquidity ELSE StrV,
          IF TOTAL_SCALED_VARIABLE_DEBT < n THEN r.total_scaled_variable_debt ELSE StrV,
          IF PRICE_IN_MARKET_REF_CURRENCY < n THEN r.price ELSE StrV)

\* The reserve records getReservesData may return in the model.
FullReserves ==
  { Reserve(FullReserveLen, "USDC", IntV(6), TRUE, FALSE, IntV(1000000), IntV(500000), IntV(50000)),
    Reserve(FullReserveLen, "USDC", IntV(0), TRUE, FALSE, IntV(3), IntV(1), IntV(100000)),
    Reserve(FullReserveLen, "USDC", IntV(6), FALSE, FALSE, IntV(1000000), IntV(500000), IntV(50000)),
    Reserve(FullReserveLen, "USDC", IntV(6), TRUE, TRUE, IntV(2000000), IntV(0), IntV(50000)),
    Reserve(FullReserveLen, "USDC", StrV, TRUE, FALSE, IntV(1000000), IntV(0), IntV(50000)),
    Reserve(FullReserveLen, "USDC", IntV(6), TRUE, FALSE, IntV(1000000), IntV(0), StrV),
    Reserve(FullReserveLen, "USDC", IntV(6), TRUE, FALSE, IntV(2000000), StrV, IntV(50000)),
    Reserve(FullReserveLen, "USDC", StrV, FALSE, TRUE, StrV, StrV, StrV),
    Reserve(FullReserveLen, Unencodable, IntV(6), TRUE, FALSE, IntV(1000000), IntV(0), IntV(100000)) }

TruncatedReserves ==
  { Truncate(Reserve(FullReserveLen, "USDC", IntV(6), TRUE, FALSE, IntV(1000000), IntV(0), IntV(50000)), 21),
    Truncate(Reserve(FullReserveLen, "USDC", IntV(6), FALSE, FALSE, IntV(1000000), IntV(0), IntV(50000)), 22),
    Truncate(Reserve(FullReserveLen, "USDC", IntV(6), TRUE, FALSE, IntV(1000000), IntV(0), IntV(50000)), 3) }

Reserves == FullReserves \cup TruncatedReserves

ReserveLists == UNION { [1..n -> Reserves] : n \in 0..MaxReserves }

BaseInfo(n, unit, price, dec) ==
  [len |-> n, unit |-> unit, price_raw |-> price, decimals |-> dec]

\* The base_currency_info tuples getReservesData may return in the model.
BaseInfos ==
  { BaseInfo(FullBaseLen, IntV(100000), IntV(2), IntV(0)),
    BaseInfo(FullBaseLen, IntV(100000), IntV(100000000), IntV(8)),
    BaseInfo(FullBaseLen, IntV(100000), IntV(20), IntV(1)),
    BaseInfo(FullBaseLen, IntV(0), IntV(2), IntV(0)),
    BaseInfo(FullBaseLen, IntV(0), IntV(100000000), IntV(8)),
    BaseInfo(FullBaseLen, StrV, IntV(2), IntV(0)),
    BaseInfo(FullBaseLen, IntV(100000), IntV(2), StrV),
    BaseInfo(FullBaseLen, IntV(100000), StrV, IntV(0)),
    BaseInfo(FullBaseLen, IntV(100000), StrV, IntV(8)),
    BaseInfo(3, IntV(100000), IntV(2), StrV),
    BaseInfo(1, IntV(100000), StrV, StrV) }

NoBase == BaseInfo(0, StrV, StrV, StrV)

\* ------------------------------------------------- calculate_total_tvl

\* A variant of PriceInUsd that forgets the scaling by the price decimals.
PriceInUsdUnscaled(raw, decimals) == Rat(raw, 1)

\* The price of one reference-currency unit in USD from the raw price and
\* its decimals, both ints.
PriceInUsd(raw, decimals) ==
  IF decimals > 0 THEN Rat(raw, Pow10(decimals)) ELSE Rat(raw, 1)

\* The decoding of base_currency_info: the exception it raises ("none" when
\* it returns), the unit and the USD price.
DecodeBase(base) ==
  LET fail(kind) == [raised |-> kind, unit |-> StrV, price_in_usd |-> Zero] IN
  IF ~(HasField(base, BASE_UNIT) /\ HasField(base, BASE_PRICE) /\ HasField(base, BASE_DECIMALS))
    THEN fail("IndexError")
  ELSE IF ~IsInt(base.decimals)
    THEN fail("TypeError")                 \* str > 0
  ELSE IF base.decimals.v > 0 /\ ~IsInt(base.price_raw)
    THEN fail("TypeError")                 \* str / int
  ELSE IF ~IsInt(base.price_raw)
    THEN fail("ValueError")                \* float("abc")
  ELSE [raised |-> "none", unit |-> base.unit,
        price_in_usd |-> PriceInUsd(base.price_raw.v, base.decimals.v)]

\* Every positional read of the loop body succeeds.
ReadsOk(reserve) ==
  \A k \in {SYMBOL, ASSET_DECIMALS, IS_ACTIVE, IS_FROZEN, AVAILABLE_LIQUIDITY,
            TOTAL_SCALED_VARIABLE_DEBT, PRICE_IN_MARKET_REF_CURRENCY} :
    HasField(reserve, k)

\* A variant of Eligible whose gate forgets the frozen flag.
EligibleIgnoringFrozen(reserve) == reserve.is_active

\* not (not is_active or is_frozen)
Eligible(reserve) == reserve.is_active /\ ~reserve.is_frozen

\* A variant of Supplied with the debt added back in ("Market Size"); the
\* sum of an int and a str raises TypeError, modelled by a str result.
SuppliedWithDebt(reserve) ==
  IF IsInt(reserve.available_liquidity) /\ IsInt(reserve.total_scaled_variable_debt)
  THEN IntV(reserve.available_liquidity.v + reserve.total_scaled_variable_debt.v)
  ELSE StrV

\* total_supplied_asset_raw
Supplied(reserve) == reserve.available_liquidity

\* A variant of UnitIsZero with the guard gone.
UnitIsZeroNever(unit) == FALSE

\* market_ref_currency_unit == 0
UnitIsZero(unit) == IsInt(unit) /\ unit.v = 0

\* The outcome of one pass of the loop body on `reserve`: the running total
\* after it, how the pass ended, and how many divisions by the unit ran.
\*   "Added"        the record's value was added and its line was printed
\*   "Skipped"      the eligibility gate: continue, nothing printed
\*   "UnitZero"     the zero-unit guard: a message, then continue
\*   "IndexError"   the except IndexError clause
\*   "UnknownError" the except Exception clause
ProcessReserve(reserve, total, unit, price_in_usd) ==
  LET end(outcome, t, d) == [outcome |-> outcome, total |-> t, divisions |-> d] IN
  IF ~ReadsOk(reserve) THEN end("IndexError", total, 0)
  ELSE IF ~Eligible(reserve) THEN end("Skipped", total, 0)
  ELSE IF ~IsInt(reserve.asset_decimals) \/ ~IsInt(Supplied(reserve))
    THEN end("UnknownError", total, 0)     \* TypeError in the normalisation
  ELSE IF UnitIsZero(unit)
    THEN IF Emits(reserve.symbol) THEN end("UnitZero", total, 0)
         ELSE end("UnknownError", total, 0)
  ELSE IF ~IsInt(reserve.price) \/ ~IsInt(unit)
    THEN end("UnknownError", total, 0)     \* TypeError: float * str, float / str
  ELSE IF unit.v = 0
    THEN end("UnknownError", total, 1)     \* ZeroDivisionError
  ELSE
    LET normalized == Rat(Supplied(reserve).v, Pow10(reserve.asset_decimals.v))
        value_in_market_ref_currency ==
          RatDiv(RatMul(normalized, Rat(reserve.price.v, 1)), Rat(unit.v, 1))
        value_in_usd == RatMul(value_in_market_ref_currency, price_in_usd)
        new_total == RatAdd(total, value_in_usd)
    IN  IF Emits(reserve.symbol) THEN end("Added", new_total, 1)
        ELSE end("UnknownError", new_total, 1)

\* A variant of LoopNext in which an IndexError ends the loop.
LoopNextBreak(i, outcome) == IF outcome = "IndexError" THEN i + MaxReserves + 1 ELSE i + 1

\* The index of the record the loop takes after record i: the except
\* clauses fall through to the next iteration like a normal pass.
LoopNext(i, outcome) == i + 1

\* --------------------------------------------------------------- main

VARIABLES
  pc,                  \* the step main() takes next; "done" when it has returned
  executed,            \* the steps main() has entered, in order
  error,               \* the kind of the exception that reached main's except clauses
  failed_step,         \* the step that raised it
  diagnostic,          \* the line main's except clause printed
  node_requests,       \* requests sent to the node so far
  reserves_calls,      \* getReservesData calls sent so far
  result,              \* what the getReservesData call returned
  reserves_data,       \* calculate_total_tvl's arguments
  base_currency_info,
  market_ref_currency_unit,
  market_ref_currency_price_in_usd,
  i,                   \* the record the loop takes next (1-based)
  total_tvl_in_usd,    \* the running total
  outcomes,            \* how the pass over each record so far ended
  unit_divisions,      \* divisions by market_ref_currency_unit so far
  tvl_reported,        \* the "Total Value Locked (TVL) in USD" line was printed
  tvl_result           \* the total it showed

vars ==
  <<pc, executed, error, failed_step, diagnostic, node_requests, reserves_calls,
    result, reserves_data, base_currency_info, market_ref_currency_unit,
    market_ref_currency_price_in_usd, i, total_tvl_in_usd, outcomes,
    unit_divisions, tvl_reported, tvl_result>>

calc_vars ==
  <<reserves_data, base_currency_info, market_ref_currency_unit,
    market_ref_currency_price_in_usd, i, total_tvl_in_usd, outcomes,
    unit_divisions>>

\* The call has not returned (yet).
NoResult ==
  [returned |-> FALSE, is_sequence |-> FALSE, len |-> 0, reserves |-> <<>>, base |-> NoBase]

\* What the call returns when it returns: a 2-element sequence
\* (reserves, base_currency_info), a sequence of another length, or
\* something that is no list or tuple (len 0 stands for "N/A").
NonSequence ==
  [returned |-> TRUE, is_sequence |-> FALSE, len |-> 0, reserves |-> <<>>, base |-> NoBase]

Results ==
  { [returned |-> TRUE, is_sequence |-> TRUE, len |-> 2, reserves |-> rs, base |-> b] :
      rs \in ReserveLists, b \in BaseInfos }
  \cup { [returned |-> TRUE, is_sequence |-> TRUE, len |-> n, reserves |-> <<>>, base |-> NoBase] :
           n \in {1, 3} }
  \cup { NonSequence }

\* isinstance(result, (list, tuple)) and len(result) == 2
ShapeOk(r) == r.is_sequence /\ r.len = 2

\* The except clauses of main(): the named kinds print "ERROR: ...", every
\* other Exception prints "Unknown critical error: ...".
Diagnostic(kind) ==
  IF kind \in {"ConnectionError", "FileNotFoundError", "ValueError", "ContractLogicError"}
  THEN "ERROR"
  ELSE "Unknown critical error"

\* A variant of Continue in which the next statement runs after an exception.
ContinueRegardless(raised, next) == next

\* The try block of main(): an exception leaves it for the except clauses,
\* after which main returns; otherwise the next statement runs.
Continue(raised, next) == IF raised = "none" THEN next ELSE "done"

\* The except clauses of get_aave_reserves_data: a ContractLogicError is
\* raised again as a ContractLogicError, every other Exception raised inside
\* the try block as a plain Exception.
Reraise(kind) ==
  IF kind = "none" THEN "none"
  ELSE IF kind = "ContractLogicError" THEN "ContractLogicError"
  ELSE "Exception"

\* A variant of CallAttempts that sends a failed call a second time.
CallAttemptsRetry(raised) == IF raised = "none" THEN 1 ELSE 2

\* The number of times get_aave_reserves_data sends the call, whatever its
\* result: there is no retry.
CallAttempts(raised) == 1

\* A statement of main()'s try block named `step` ends, raising `raised`.
Step(step, raised, next) ==
  /\ executed' = Append(executed, step)
  /\ error' = IF raised = "none" THEN error ELSE raised
  /\ failed_step' = IF raised = "none" THEN failed_step ELSE step
  /\ diagnostic' = IF raised = "none" THEN diagnostic ELSE Diagnostic(raised)
  /\ pc' = Continue(raised, next)

Init ==
  /\ pc = "connect"
  /\ executed = <<>>
  /\ error = "none"
  /\ failed_step = "none"
  /\ diagnostic = "none"
  /\ node_requests = 0
  /\ reserves_calls = 0
  /\ result = NoResult
  /\ reserves_data = <<>>
  /\ base_currency_info = NoBase
  /\ market_ref_currency_unit = StrV
  /\ market_ref_currency_price_in_usd = Zero
  /\ i = 1
  /\ total_tvl_in_usd = Zero
  /\ outcomes = <<>>
  /\ unit_divisions = 0
  /\ tvl_reported = FALSE
  /\ tvl_result = Zero

\* connect_to_web3: w3.is_connected() asks the node (one request) and the
\* function raises ConnectionError when the answer is False.
Connect ==
  /\ pc = "connect"
  /\ \E live \in BOOLEAN :
       Step("connect", IF live THEN "none" ELSE "ConnectionError", "block_number")
  /\ node_requests' = node_requests + 1
  /\ UNCHANGED <<reserves_calls, result, tvl_reported, tvl_result>>
  /\ UNCHANGED calc_vars

\* print(f"Latest block from RPC: {w3.eth.block_number}"): one more request
\* to the node, which may fail.
BlockNumber ==
  /\ pc = "block_number"
  /\ \E ok \in BOOLEAN :
       Step("block_number", IF ok THEN "none" ELSE "Exception", "load_abi")
  /\ node_requests' = node_requests + 1
  /\ UNCHANGED <<reserves_calls, result, tvl_reported, tvl_result>>
  /\ UNCHANGED calc_vars

\* load_abi: the file is missing, is no JSON, or loads.
LoadAbi ==
  /\ pc = "load_abi"
  /\ \E file \in {"ok", "missing", "invalid"} :
       Step("load_abi",
            CASE file = "ok" -> "none"
              [] file = "missing" -> "FileNotFoundError"
              [] file = "invalid" -> "ValueError",
            "fetch")
  /\ UNCHANGED <<node_requests, reserves_calls, result, tvl_reported, tvl_result>>
  /\ UNCHANGED calc_vars

\* get_aave_reserves_data: the call reverts, fails otherwise, or returns; a
\* returned value of the wrong shape raises ValueError inside the try block.
GetAaveReservesData ==
  /\ pc = "fetch"
  /\ \E call \in {"revert", "failure", "returns"}, r \in Results :
       LET inside == CASE call = "revert" -> "ContractLogicError"
                       [] call = "failure" -> "Exception"
                       [] call = "returns" -> IF ShapeOk(r) THEN "none" ELSE "ValueError"
           raised == Reraise(inside)
       IN  /\ call # "returns" => r = NonSequence
           /\ Step("fetch", raised, "calculate")
           /\ result' = IF call = "returns" THEN r ELSE NoResult
           /\ reserves_data' = IF raised = "none" THEN r.reserves ELSE reserves_data
           /\ base_currency_info' = IF raised = "none" THEN r.base ELSE base_currency_info
           /\ node_requests' = node_requests + CallAttempts(raised)
           /\ reserves_calls' = reserves_calls + CallAttempts(raised)
  /\ UNCHANGED <<market_ref_currency_unit, market_ref_currency_price_in_usd, i,
                 total_tvl_in_usd, outcomes, unit_divisions, tvl_reported, tvl_result>>

\* calculate_total_tvl up to its loop: the totals start at 0.0 and
\* base_currency_info is decoded, outside any try block.
Calculate ==
  /\ pc = "calculate"
  /\ LET d == DecodeBase(base_currency_info)
     IN  /\ Step("calculate", d.raised, "loop")
         /\ market_ref_currency_unit' = d.unit
         /\ market_ref_currency_price_in_usd' = d.price_in_usd
  /\ total_tvl_in_usd' = Zero
  /\ i' = 1
  /\ UNCHANGED <<node_requests, reserves_calls, result, reserves_data,
                 base_currency_info, outcomes, unit_divisions, tvl_reported, tvl_result>>

\* One pass of the loop body, its except clauses included.
Loop ==
  /\ pc = "loop"
  /\ i <= Len(reserves_data)
  /\ LET p == ProcessReserve(reserves_data[i], total_tvl_in_usd,
                             market_ref_currency_unit, market_ref_currency_price_in_usd)
     IN  /\ total_tvl_in_usd' = p.total
         /\ outcomes' = Append(outcomes, p.outcome)
         /\ unit_divisions' = unit_divisions + p.divisions
         /\ i' = LoopNext(i, p.outcome)
  /\ UNCHANGED <<pc, executed, error, failed_step, diagnostic, node_requests,
                 reserves_calls, result, reserves_data, base_currency_info,
                 market_ref_currency_unit, market_ref_currency_price_in_usd,
                 tvl_reported, tvl_result>>

\* The loop is over: calculate_total_tvl returns the total and main prints
\* the "Total Value Locked" line.
Report ==
  /\ pc = "loop"
  /\ i > Len(reserves_data)
  /\ pc' = "done"
  /\ tvl_reported' = TRUE
  /\ tvl_result' = total_tvl_in_usd
  /\ UNCHANGED <<executed, error, failed_step, diagnostic, node_requests,
                 reserves_calls, result>>
  /\ UNCHANGED calc_vars

Next ==
  \/ Connect
  \/ BlockNumber
  \/ LoadAbi
  \/ GetAaveReservesData
  \/ Calculate
  \/ Loop
  \/ Report

Spec == Init /\ [][Next]_vars

\* ------------------------------------------------- the pure reduction

\* calculate_total_tvl as a function of its arguments: the exception it
\* raises ("none" when it returns) and the total it returns.
RECURSIVE FoldReserves(_, _, _, _, _)
FoldReserves(reserves, k, total, unit, price_in_usd) ==
  IF k > Len(reserves) THEN total
  ELSE LET p == ProcessReserve(reserves[k], total, unit, price_in_usd)
       IN  FoldReserves(reserves, LoopNext(k, p.outcome), p.total, unit, price_in_usd)

CalculateTotalTvl(reserves, base) ==
  LET d == DecodeBase(base)
  IN  [raised |-> d.raised,
       total |-> IF d.raised = "none"
                 THEN FoldReserves(reserves, 1, Zero, d.unit, d.price_in_usd)
                 ELSE Zero]

\* ------------------------------------------------------------- claims

Has(seq, x) == \E k \in 1..Len(seq) : seq[k] = x

Min(a, b) == IF a < b THEN a ELSE b

\* calculate_total_tvl has been entered in this run.
InCalculate == Has(executed, "calculate")

\* calculate_total_tvl has returned and main has printed its total.
Returned == pc = "done" /\ tvl_reported

\* A record missing one of the positional fields the loop reads.
TruncatedRecord(r) == r.len < FullReserveLen

\* A full record whose fields have the types of the data model.
WellFormedRecord(r) ==
  /\ r.len >= FullReserveLen
  /\ IsInt(r.asset_decimals) /\ r.asset_decimals.v >= 0
  /\ IsInt(r.available_liquidity)
  /\ IsInt(r.total_scaled_variable_debt)
  /\ IsInt(r.price)

\* A base_currency_info of the data model: four fields, ints, a nonzero unit.
WellFormedBase(b) ==
  /\ b.len = FullBaseLen
  /\ IsInt(b.unit) /\ b.unit.v # 0
  /\ IsInt(b.price_raw)
  /\ IsInt(b.decimals) /\ b.decimals.v >= 0

\* The fiat value of a well-formed record as the specification states it:
\* ((availableLiquidity / 10^assetDecimals) * price / unit) * priceInUsd.
FiatValue(r, b) ==
  LET priceInUsd == IF b.decimals.v > 0
                    THEN Rat(b.price_raw.v, Pow10(b.decimals.v))
                    ELSE Rat(b.price_raw.v, 1)
      suppliedNormalized == Rat(r.available_liquidity.v, Pow10(r.asset_decimals.v))
      valueInRef == RatDiv(RatMul(suppliedNormalized, Rat(r.price.v, 1)), Rat(b.unit.v, 1))
  IN  RatMul(valueInRef, priceInUsd)

\* The sum, in input order, of the fiat values of the first n records that
\* are well-formed, active and not frozen.
RECURSIVE FiatSum(_, _, _)
FiatSum(reserves, n, b) ==
  IF n = 0 THEN Zero
  ELSE LET r == reserves[n]
           rest == FiatSum(reserves, n - 1, b)
       IN  IF WellFormedRecord(r) /\ r.is_active /\ ~r.is_frozen
           THEN RatAdd(rest, FiatValue(r, b))
           ELSE rest

\* The records the loop has passed.
Passed == Min(i - 1, Len(reserves_data))

\* Every float of a run is a binary fraction: on these inputs binary64
\* arithmetic is exact, and the rationals of the model are its values.
BinaryFractions ==
  /\ PowerOfTwo(market_ref_currency_price_in_usd[2])
  /\ PowerOfTwo(total_tvl_in_usd[2])
  /\ PowerOfTwo(tvl_result[2])

\* C1 (error isolation for a truncated record): when base_currency_info is
\* well-formed and every record is either truncated or well-formed,
\* calculate_total_tvl raises nothing, each truncated record ends in the
\* IndexError clause, the running total is at every point the in-order sum
\* of the fiat values of the well-formed eligible records passed so far, and
\* the returned total is that sum over the whole list.
C1_TruncatedRecordsIsolated ==
  (/\ InCalculate
   /\ WellFormedBase(base_currency_info)
   /\ \A k \in 1..Len(reserves_data) :
        TruncatedRecord(reserves_data[k]) \/ WellFormedRecord(reserves_data[k]))
  => /\ error = "none"
     /\ \A k \in 1..Len(outcomes) :
          TruncatedRecord(reserves_data[k]) => outcomes[k] = "IndexError"
     /\ pc = "loop" => total_tvl_in_usd = FiatSum(reserves_data, Passed, base_currency_info)
     /\ pc = "done" =>
          /\ tvl_reported
          /\ Len(outcomes) = Len(reserves_data)
          /\ tvl_result = FiatSum(reserves_data, Len(reserves_data), base_currency_info)

\* A run that returned a nonzero total from a list holding a truncated record
\* followed by a well-formed one.
C1_Witness ==
  /\ Returned
  /\ WellFormedBase(base_currency_info)
  /\ Len(reserves_data) = 2
  /\ TruncatedRecord(reserves_data[1])
  /\ WellFormedRecord(reserves_data[2])
  /\ outcomes = <<"IndexError", "Added">>
  /\ tvl_result # Zero

\* C2 (the reducer never aborts on a well-formed top-level pair): whenever
\* the fetched pair holds a base_currency_info of four fields, whatever
\* their values, calculate_total_tvl raises nothing.
C2_NeverAbortsOnArityFour ==
  (InCalculate /\ base_currency_info.len = FullBaseLen) => failed_step # "calculate"

\* C3 as amended (eligibility gate): a pass over a record whose isActive is
\* false or whose isFrozen is true leaves the running total unchanged
\* whatever its other fields hold; it is skipped silently when the record
\* has all the fields the loop reads, and ends in the IndexError clause when
\* one of the fields 20, 21, 22 is missing.
GateClosed(r) ==
  /\ HasField(r, IS_ACTIVE) /\ HasField(r, IS_FROZEN)
  /\ (~r.is_active \/ r.is_frozen)

C3_GateLeavesTotalUnchanged ==
  [][(/\ Len(outcomes') = Len(outcomes) + 1
      /\ i <= Len(reserves_data)
      /\ GateClosed(reserves_data[i]))
     => /\ total_tvl_in_usd' = total_tvl_in_usd
        /\ outcomes'[Len(outcomes')] =
             IF TruncatedRecord(reserves_data[i]) THEN "IndexError" ELSE "Skipped"]_vars

\* An ineligible full record was skipped silently after a record was added.
C3_Witness ==
  /\ Len(outcomes) = 2
  /\ outcomes = <<"Added", "Skipped">>
  /\ GateClosed(reserves_data[2])
  /\ ~IsInt(reserves_data[2].available_liquidity)
  /\ total_tvl_in_usd # Zero

\* C3 as stated: every ineligible record, whatever the presence of its
\* other fields, leaves the total unchanged and is skipped silently.
C3_AsStated ==
  [][(/\ Len(outcomes') = Len(outcomes) + 1
      /\ i <= Len(reserves_data)
      /\ GateClosed(reserves_data[i]))
     => /\ total_tvl_in_usd' = total_tvl_in_usd
        /\ outcomes'[Len(outcomes')] = "Skipped"]_vars

\* C4 (zero-reference-unit guard): with a unit of 0 in an otherwise decodable
\* base_currency_info, calculate_total_tvl raises nothing, never divides by
\* the unit, adds no record (every active, unfrozen full record ends in the
\* guard or in an except clause), keeps the total at 0 and returns 0.
UnitZeroBase(b) ==
  /\ b.len = FullBaseLen
  /\ IsInt(b.unit) /\ b.unit.v = 0
  /\ IsInt(b.price_raw) /\ IsInt(b.decimals)

C4_ZeroUnitGuard ==
  (InCalculate /\ UnitZeroBase(base_currency_info))
  => /\ error = "none"
     /\ unit_divisions = 0
     /\ total_tvl_in_usd = Zero
     /\ \A k \in 1..Len(outcomes) :
          /\ outcomes[k] # "Added"
          /\ (ReadsOk(reserves_data[k]) /\ Eligible(reserves_data[k]))
               => outcomes[k] \in {"UnitZero", "UnknownError"}
     /\ pc = "done" => (tvl_reported /\ tvl_result = Zero
                        /\ Len(outcomes) = Len(reserves_data))

\* A run with a unit of 0 that returned after the guard skipped a
\* well-formed active record.
C4_Witness ==
  /\ Returned
  /\ UnitZeroBase(base_currency_info)
  /\ Len(reserves_data) = 2
  /\ WellFormedRecord(reserves_data[1]) /\ Eligible(reserves_data[1])
  /\ outcomes[1] = "UnitZero"
  /\ outcomes[2] = "UnitZero"

\* C5 (schema rejection): when the call returns something that is not a
\* 2-element sequence, the run ends in the fetch step with the error kind of
\* the schema check (ValueError), which differs from the kinds of a revert
\* and of another fetch failure; calculate_total_tvl is not entered and no
\* total is printed.
C5_SchemaRejection ==
  (result.returned /\ ~ShapeOk(result))
  => /\ pc = "done"
     /\ failed_step = "fetch"
     /\ error = "ValueError"
     /\ error \notin {"ContractLogicError", "Exception"}
     /\ ~InCalculate
     /\ ~tvl_reported

\* C6 (reduction result): for a well-formed base_currency_info with a
\* nonzero unit and well-formed records, the decoded USD price is
\* rawPrice / 10^priceDecimals when priceDecimals > 0 and rawPrice itself
\* otherwise, and the returned total is the in-order sum over the active,
\* unfrozen records of ((liquidity / 10^decimals) * price / unit) * priceInUsd;
\* priceDecimals = 8 with rawPrice = 100000000 gives a price of 1, and the
\* single record (6, 1000000, 50000) under unit 100000, priceDecimals 0 and
\* rawPrice 2 gives a total of 1.
AllWellFormed ==
  /\ WellFormedBase(base_currency_info)
  /\ \A k \in 1..Len(reserves_data) : WellFormedRecord(reserves_data[k])

ExampleRecord(r) ==
  /\ r.asset_decimals = IntV(6)
  /\ r.available_liquidity = IntV(1000000)
  /\ r.price = IntV(50000)
  /\ r.is_active /\ ~r.is_frozen

ExampleBase(b) == b.unit = IntV(100000) /\ b.decimals = IntV(0) /\ b.price_raw = IntV(2)

C6_ReductionResult ==
  (pc \in {"loop", "done"} /\ AllWellFormed)
  => /\ error = "none"
     /\ market_ref_currency_price_in_usd =
          (IF base_currency_info.decimals.v > 0
           THEN Rat(base_currency_info.price_raw.v, Pow10(base_currency_info.decimals.v))
           ELSE Rat(base_currency_info.price_raw.v, 1))
     /\ (base_currency_info.decimals = IntV(8) /\ base_currency_info.price_raw = IntV(100000000))
          => market_ref_currency_price_in_usd = Rat(1, 1)
     /\ pc = "done" =>
          /\ tvl_reported
          /\ tvl_result = FiatSum(reserves_data, Len(reserves_data), base_currency_info)
          /\ (/\ Len(reserves_data) = 1
              /\ ExampleRecord(reserves_data[1])
              /\ ExampleBase(base_currency_info))
             => tvl_result = Rat(1, 1)

\* A run over two well-formed eligible records under priceDecimals = 8 that
\* returned 1/2 + 3 = 7/2.
C6_Witness ==
  /\ Returned
  /\ AllWellFormed
  /\ base_currency_info.decimals = IntV(8)
  /\ Len(reserves_data) = 2
  /\ ExampleRecord(reserves_data[1])
  /\ outcomes = <<"Added", "Added">>
  /\ tvl_result = Rat(7, 2)

\* C7 (no total after a fatal error): the total line is printed only in a
\* run in which connect, block-height read, ABI load, fetch and reduction
\* all ran, in this order, and none raised; once a step has raised, it is
\* the last step entered, main has printed a diagnostic and returned, and
\* the total line is not printed.
AllSteps == <<"connect", "block_number", "load_abi", "fetch", "calculate">>

C7_NoTotalAfterFatalError ==
  /\ tvl_reported => (error = "none" /\ failed_step = "none" /\ executed = AllSteps
                      /\ diagnostic = "none")
  /\ error # "none" =>
       /\ pc = "done"
       /\ ~tvl_reported
       /\ executed # <<>>
       /\ executed[Len(executed)] = failed_step
       /\ executed = SubSeq(AllSteps, 1, Len(executed))
       /\ diagnostic \in {"ERROR", "Unknown critical error"}
       /\ outcomes = <<>>

\* A run that ended in a fatal error of the ABI load, with no total printed.
C7_Witness ==
  /\ pc = "done"
  /\ failed_step = "load_abi"
  /\ error = "FileNotFoundError"
  /\ executed = <<"connect", "block_number", "load_abi">>
  /\ ~tvl_reported

\* C8 (liquidity-only policy): the returned total is the total
\* calculate_total_tvl returns for every input that differs from this run's
\* only in the values of field 21 (totalScaledVariableDebt) of the records
\* that have it.
DebtValues == {IntV(0), IntV(1), IntV(500000), StrV}

WithDebt(r, debt) ==
  IF HasField(r, TOTAL_SCALED_VARIABLE_DEBT)
  THEN [r EXCEPT !.total_scaled_variable_debt = debt]
  ELSE r

DebtVariants(reserves) ==
  { [k \in 1..Len(reserves) |-> WithDebt(reserves[k], f[k])] :
      f \in [1..Len(reserves) -> DebtValues] }

C9_FailureContributesZero ==
  [][(/\ Len(outcomes') = Len(outcomes) + 1
      /\ outcomes'[Len(outcomes')] \in {"IndexError", "UnknownError"})
     => /\ total_tvl_in_usd' = total_tvl_in_usd
        /\ i' = i + 1
        /\ pc' = "loop"]_vars

\* C10 as amended (node traffic): main sends the getReservesData call at
\* most once and never again after a failure: exactly once in the runs that
\* reach the fetch step, not at all in the runs that fail before it; the
\* liveness check and the block-height read are node requests of their own,
\* one each, so a run that has ended has sent between one and three.
Count(seq, x) == Cardinality({k \in 1..Len(seq) : seq[k] = x})

====
